---- MODULE Spec2Model ----
(***************************************************************************)
(* A model of cellmap_segmentation_challenge.utils.evaluate (packaging of  *)
(* label arrays into a Zarr-2 directory store, and the scoring pipeline)   *)
(* and of cellmap_segmentation_challenge.utils.loss (CellMapLossWrapper).  *)
(*                                                                         *)
(* Three specifications share the module:                                  *)
(*   SpecPack   the two save_numpy_*_to_zarr helpers on one                *)
(*              submission_path;                                           *)
(*   SpecScore  score_submission / score_volume / score_label on a         *)
(*              submission and the ground-truth store "truth.zarr";        *)
(*   SpecLoss   CellMapLossWrapper.calc_loss and .forward.                 *)
(***************************************************************************)
EXTENDS Integers, Sequences, FiniteSets, TLC

VARIABLES
    parentExists,   \* os: UPath(submission_path).parent is a directory
    store,          \* the Zarr-2 directory store at submission_path
    called,         \* test_volume_name arguments passed so far
    packCall,       \* the last save_numpy_*_to_zarr call and how it ended
    submission,     \* the submitted Zarr-2 store: its top-level nodes
    truth,          \* the ground-truth store "truth.zarr": its top-level nodes
    resultsFile,    \* the JSON file at save_path
    scoreCall,      \* the last score_* call and how it ended
    loss_fn,        \* CellMapLossWrapper.loss_fn, built with reduction="none"
    lossIn,         \* the outputs and targets given to the wrapper
    lossCall        \* the last calc_loss / forward call and its result

packVars == <<parentExists, store, called, packCall>>
scoreVars == <<submission, truth, resultsFile, scoreCall>>
lossVars == <<loss_fn, lossIn, lossCall>>
vars == <<packVars, scoreVars, lossVars>>

(***************************************************************************)
(* Bounds and sample names.                                                *)
(***************************************************************************)
\* number of voxels of a label volume (a 3D volume, flattened)
NVox == 2
\* class labels of a class-label array are 0..MaxClass, 0 the background
MaxClass == 2

Voxels == 1..NVox
VolumeNames == {"v1", "v2"}
LabelNames == {"l1", "l2"}

\* the label_names arguments tried: empty, one name, two names in both
\* orders, and a repeated name
LabelNameLists ==
    {<<>>, <<"l1">>, <<"l1", "l2">>, <<"l2", "l1">>, <<"l1", "l1">>}

ClassArrays == [Voxels -> 0..MaxClass]
BinaryArrays == [Voxels -> {0, 1}]
\* the labels arguments of save_numpy_binary_to_zarr: lists of binary arrays
BinaryLists == UNION {[1..k -> BinaryArrays] : k \in 0..2}

(***************************************************************************)
(* The Zarr-2 store: a root group holding one group per test volume, each  *)
(* holding arrays by label name.                                           *)
(***************************************************************************)
NoArray == [present |-> FALSE, data |-> <<>>]
NoGroup == [present |-> FALSE, arrays |-> [l \in LabelNames |-> NoArray]]
NoStore == [exists |-> FALSE, groups |-> [v \in VolumeNames |-> NoGroup]]

\* zarr.group(zarr.DirectoryStore(submission_path)): an empty root group
zarr_group == [exists |-> TRUE, groups |-> [v \in VolumeNames |-> NoGroup]]

\* Group.create_group(name) on a root group that does not hold `name`
create_group(root, name) ==
    [root EXCEPT !.groups[name] =
        [present |-> TRUE, arrays |-> [l \in LabelNames |-> NoArray]]]

\* the names of the arrays of a group, as read back from the store
array_keys(group) == {l \in LabelNames : group.arrays[l].present}

\* labels == i + 1, for the 0-based index i of enumerate(label_name)
class_mask_off_by_one(labels, i) == [v \in Voxels |-> labels[v] = i]

class_mask(labels, i) == [v \in Voxels |-> labels[v] = i + 1]

(***************************************************************************)
(* for i, label_name in enumerate(label_names):                            *)
(*     zarr_group[test_volume_name].create_dataset(label_name, data=...)   *)
(* `datas` holds the data argument of each iteration; j is the 1-based     *)
(* position.  Evaluating data=labels[i] raises IndexError when the list    *)
(* is too short, before create_dataset is called; create_dataset raises    *)
(* ContainsArrayError when the group already holds the name.  The arrays   *)
(* written by the earlier iterations stay in the store.                    *)
(***************************************************************************)
RECURSIVE create_datasets(_, _, _, _)
create_datasets(arrays, names, datas, j) ==
    IF j > Len(names) THEN [arrays |-> arrays, outcome |-> "ok"]
    ELSE IF j > Len(datas) THEN [arrays |-> arrays, outcome |-> "IndexError"]
    ELSE IF arrays[names[j]].present
         THEN [arrays |-> arrays, outcome |-> "ContainsArrayError"]
    ELSE create_datasets(
            [arrays EXCEPT ![names[j]] = [present |-> TRUE, data |-> datas[j]]],
            names, datas, j + 1)

\* the arguments are usable as documented: distinct label names, and one
\* array per label name
WellFormed(names, nlabels) ==
    /\ \A i, j \in 1..Len(names) : names[i] = names[j] => i = j
    /\ nlabels >= Len(names)

NoCall ==
    [fn |-> "none", vol |-> "", fresh |-> FALSE, well_formed |-> FALSE,
     path_existed |-> FALSE, parent_existed |-> FALSE, outcome |-> "none",
     names |-> <<>>, labels |-> <<>>]

(***************************************************************************)
(* The body shared by save_numpy_labels_to_zarr and                        *)
(* save_numpy_binary_to_zarr; `datas` is the data written per label name   *)
(* and `labels` the labels argument.  The call record keeps label_names    *)
(* and labels once the call reaches the loop that reads them; a call that  *)
(* raises before it never looks at them.  The result is the filesystem    *)
(* and store after the call, with the call record.  create_group is only   *)
(* reached on a root group created by the same call, where the overwrite   *)
(* argument changes nothing.                                               *)
(***************************************************************************)
save_to_zarr(fn, test_volume_name, label_names, labels, datas, wf) ==
    LET rec == [fn |-> fn, vol |-> test_volume_name,
                fresh |-> test_volume_name \notin called,
                well_formed |-> wf,
                path_existed |-> store.exists,
                parent_existed |-> parentExists,
                outcome |-> "none", names |-> <<>>, labels |-> <<>>]
    IN
    IF ~store.exists
    THEN IF parentExists
         THEN \* os.makedirs(parent) without exist_ok
              [parentExists |-> parentExists, store |-> store,
               call |-> [rec EXCEPT !.outcome = "FileExistsError"]]
         ELSE LET root == create_group(zarr_group, test_volume_name)
                  w == create_datasets(root.groups[test_volume_name].arrays,
                                       label_names, datas, 1)
              IN [parentExists |-> TRUE,
                  store |-> [root EXCEPT
                                !.groups[test_volume_name].arrays = w.arrays],
                  call |-> [rec EXCEPT !.outcome = w.outcome,
                                       !.names = label_names,
                                       !.labels = labels]]
    ELSE \* zarr_group was never bound
         [parentExists |-> parentExists, store |-> store,
          call |-> [rec EXCEPT !.outcome = "UnboundLocalError"]]

save_numpy_labels_to_zarr ==
    \E test_volume_name \in VolumeNames, label_name \in LabelNameLists,
       labels \in ClassArrays :
        LET r == save_to_zarr(
                    "save_numpy_labels_to_zarr", test_volume_name, label_name,
                    labels,
                    [j \in 1..Len(label_name) |-> class_mask(labels, j - 1)],
                    WellFormed(label_name, Len(label_name)))
        IN /\ parentExists' = r.parentExists
           /\ store' = r.store
           /\ packCall' = r.call
           /\ called' = called \cup {test_volume_name}
           /\ UNCHANGED <<scoreVars, lossVars>>

save_numpy_binary_to_zarr ==
    \E test_volume_name \in VolumeNames, label_names \in LabelNameLists,
       labels \in BinaryLists :
        LET r == save_to_zarr(
                    "save_numpy_binary_to_zarr", test_volume_name, label_names,
                    labels, labels, WellFormed(label_names, Len(labels)))
        IN /\ parentExists' = r.parentExists
           /\ store' = r.store
           /\ packCall' = r.call
           /\ called' = called \cup {test_volume_name}
           /\ UNCHANGED <<scoreVars, lossVars>>

(***************************************************************************)
(* Scoring.  A node of a store is absent, an array (with its shape) or a   *)
(* group; a top-level node also has children by label name.                *)
(***************************************************************************)
Shapes == {<<1, 1, 1>>, <<1, 1, 2>>}
\* the shape of the ground-truth label volumes
TruthShape == <<1, 1, 1>>

AbsentLeaf == [kind |-> "absent", shape |-> <<>>]
GroupLeaf == [kind |-> "group", shape |-> <<>>]
ArrayLeaf(shape) == [kind |-> "array", shape |-> shape]
NoChildren == [l \in LabelNames |-> AbsentLeaf]
AbsentNode == [kind |-> "absent", shape |-> <<>>, children |-> NoChildren]
ArrayNode(shape) == [kind |-> "array", shape |-> shape, children |-> NoChildren]
GroupNode(children) == [kind |-> "group", shape |-> <<>>, children |-> children]

\* what a submitted volume may hold under a label name (a subgroup appears
\* where score_label opens a path that holds nothing)
SubmissionLeaves == {AbsentLeaf} \cup {ArrayLeaf(s) : s \in Shapes}
TruthLeaves == {AbsentLeaf, ArrayLeaf(TruthShape)}
\* the submitted volumes: the label l2, where present, has the shape of the
\* ground truth
SubmissionNodes ==
    {AbsentNode, ArrayNode(TruthShape)}
        \cup {GroupNode(c) : c \in {d \in [LabelNames -> SubmissionLeaves] :
                                        d["l2"] \in TruthLeaves}}
\* the ground truth holds groups of arrays of one shape, the label l1 in
\* every volume
TruthNodes ==
    {AbsentNode}
        \cup {GroupNode(c) : c \in {d \in [LabelNames -> TruthLeaves] :
                                        d["l1"].kind = "array"}}

\* array_keys() lists the names in sorted order
SortedVolumeNames == <<"v1", "v2">>

\* the orders in which a set of names may be iterated
Orders(S) == {o \in [1..Cardinality(S) -> S] : \A x \in S : \E i \in DOMAIN o : o[i] = x}

\* zarr.open(path), mode "a": the array or group at path; where there is
\* none, a group is created there (over whatever the directory holds)
zarr_open(node) ==
    IF node.kind = "absent" THEN [node EXCEPT !.kind = "group"] ELSE node

\* zarr.open(path) on the path of a label volume
zarr_open_leaf(leaf) == IF leaf.kind = "absent" THEN GroupLeaf ELSE leaf

\* Group.array_keys(): the names of the arrays directly under the group
\* (its subgroups are not listed)
node_array_keys(node) == {l \in LabelNames : node.children[l].kind = "array"}

\* Group.array_keys() of a root group, over its top-level nodes
top_array_keys(nodes) == {v \in VolumeNames : nodes[v].kind = "array"}

\* the top-level groups of a store
top_group_keys(nodes) == {v \in VolumeNames : nodes[v].kind = "group"}

(***************************************************************************)
(* unzip_file extracts the archive to <parent>/<stem> and score_submission *)
(* opens that directory as the store.  An archive made as documented       *)
(* (zip -r submission.zip submission.zarr) holds the store under           *)
(* submission.zarr/ ("wrapped"): the opened directory then has one         *)
(* top-level group, submission.zarr, and no test volume at its top level.  *)
(* An archive of the store's contents ("flat") opens as the store itself.  *)
(***************************************************************************)
ZipLayouts == {"wrapped", "flat"}

unzip_file(layout, nodes) ==
    IF layout = "flat" THEN nodes ELSE [v \in VolumeNames |-> AbsentNode]

\* score_label(pred_label_path), on the node at that path and the node of
\* the same names in truth.zarr: both paths are opened (which creates a
\* group where a path holds nothing), then the shapes are compared; a
\* group has no shape attribute
score_label(pred, tr) ==
    LET pred_label == zarr_open_leaf(pred)
        truth_label == zarr_open_leaf(tr)
    IN [outcome |->
            IF pred_label.kind /= "array" \/ truth_label.kind /= "array"
            THEN "AttributeError"
            ELSE IF pred_label.shape = truth_label.shape THEN "ok"
            ELSE "AssertionError",
        pred |-> pred_label, truth |-> truth_label]

\* a dict with one more entry
DictSet(d, k, val) ==
    [x \in (DOMAIN d) \cup {k} |-> IF x = k THEN val ELSE d[x]]

\* {label: score_label(pred_volume_path / label) for label in labels}, the
\* labels taken in the order `order`; score_label returns the empty dict.
\* pred_volume_path / label is a TypeError when pred_volume_path is a str
\* and not a UPath.  The labels are arrays in both volumes, which
\* score_label leaves as they are.
RECURSIVE score_labels(_, _, _, _, _, _, _, _)
score_labels(pred, tr, labels, order, as_str, j, scores, calls) ==
    IF j > Len(order)
    THEN [outcome |-> "ok", scores |-> scores, calls |-> calls]
    ELSE IF order[j] \notin labels
    THEN score_labels(pred, tr, labels, order, as_str, j + 1, scores, calls)
    ELSE IF as_str
    THEN [outcome |-> "TypeError", scores |-> <<>>, calls |-> calls]
    ELSE LET l == order[j]
             r == score_label(pred.children[l], tr.children[l])
         IN IF r.outcome /= "ok"
            THEN [outcome |-> r.outcome, scores |-> <<>>,
                  calls |-> Append(calls, l)]
            ELSE score_labels(pred, tr, labels, order, as_str, j + 1,
                              DictSet(scores, l, <<>>), Append(calls, l))

\* labels = list(set(pred_labels) & set(truth_labels))
labels_to_score(pred_labels, truth_labels) == pred_labels \cap truth_labels

(***************************************************************************)
(* score_volume(pred_volume_path), on the node at that path and the node   *)
(* of the same name in truth.zarr.  Opening a path that holds nothing      *)
(* creates a group there; an array has no array_keys().  as_str: the path  *)
(* is given as a str (as in the docstring), not as a UPath (as by          *)
(* score_submission).                                                      *)
(***************************************************************************)
score_volume(pred, tr, order, as_str) ==
    IF pred.kind = "array"
    THEN [outcome |-> "AttributeError", scores |-> <<>>, calls |-> <<>>,
          pred |-> pred, truth |-> tr]
    ELSE IF tr.kind = "array"
    THEN [outcome |-> "AttributeError", scores |-> <<>>, calls |-> <<>>,
          pred |-> zarr_open(pred), truth |-> tr]
    ELSE LET p == zarr_open(pred)
             t == zarr_open(tr)
             labels == labels_to_score(node_array_keys(p), node_array_keys(t))
             r == score_labels(p, t, labels, order, as_str, 1, <<>>, <<>>)
         IN [outcome |-> r.outcome, scores |-> r.scores, calls |-> r.calls,
             pred |-> p, truth |-> t]

\* {volume: score_volume(submission_path / volume) for volume in pred_volumes}
RECURSIVE score_volumes(_, _, _, _, _, _, _)
score_volumes(opened, tr, volumes, volOrder, labOrder, j, scores) ==
    IF j > Len(volOrder)
    THEN [outcome |-> "ok", scores |-> scores, truth |-> tr]
    ELSE IF volOrder[j] \notin volumes
    THEN score_volumes(opened, tr, volumes, volOrder, labOrder, j + 1, scores)
    ELSE LET v == volOrder[j]
             r == score_volume(opened[v], tr[v], labOrder, FALSE)
             tr2 == [tr EXCEPT ![v] = r.truth]
         IN IF r.outcome /= "ok"
            THEN [outcome |-> r.outcome, scores |-> <<>>, truth |-> tr2]
            ELSE score_volumes(opened, tr2, volumes, volOrder, labOrder, j + 1,
                               DictSet(scores, v, r.scores))

NoFile == [written |-> FALSE, scores |-> <<>>]

NoScoreCall ==
    [fn |-> "none", vol |-> "", label |-> "", as_str |-> FALSE,
     layout |-> "", save_path |-> FALSE,
     outcome |-> "none", returned |-> "none", scores |-> <<>>, calls |-> <<>>,
     wrote |-> FALSE]

(***************************************************************************)
(* score_label called on the label `label` of the volume `vol` of the      *)
(* submitted store.                                                        *)
(***************************************************************************)
ScoreLabel ==
    \E vol \in VolumeNames, label \in LabelNames :
        LET r == score_label(submission[vol].children[label],
                             truth[vol].children[label])
        IN /\ submission' = [submission EXCEPT ![vol].children[label] = r.pred]
           /\ truth' = [truth EXCEPT ![vol].children[label] = r.truth]
           /\ scoreCall' = [NoScoreCall EXCEPT
                               !.fn = "score_label", !.vol = vol,
                               !.label = label,
                               !.outcome = r.outcome,
                               !.returned = IF r.outcome = "ok" THEN "dict"
                                            ELSE "raise"]
           /\ UNCHANGED <<resultsFile, packVars, lossVars>>

(***************************************************************************)
(* score_volume called on the volume `vol` of the submitted store, the     *)
(* path given as a str or as a UPath.                                      *)
(***************************************************************************)
ScoreVolume ==
    \E vol \in VolumeNames, order \in Orders(LabelNames), as_str \in BOOLEAN :
        LET r == score_volume(submission[vol], truth[vol], order, as_str)
        IN /\ submission' = [submission EXCEPT ![vol] = r.pred]
           /\ truth' = [truth EXCEPT ![vol] = r.truth]
           /\ scoreCall' = [NoScoreCall EXCEPT
                               !.fn = "score_volume", !.vol = vol,
                               !.as_str = as_str,
                               !.outcome = r.outcome,
                               !.returned = IF r.outcome = "ok" THEN "dict"
                                            ELSE "raise",
                               !.scores = r.scores, !.calls = r.calls]
           /\ UNCHANGED <<resultsFile, packVars, lossVars>>

(***************************************************************************)
(* score_submission(submission_path, save_path) on an archive of the       *)
(* submitted store.  The volumes scored are pred_volumes, the array keys   *)
(* of the opened store; `volumes`, the intersection with the array keys of *)
(* truth.zarr, is computed and not used.  With save_path the scores are    *)
(* dumped and the function falls off its end (returns None).               *)
(***************************************************************************)
ScoreSubmission ==
    \E layout \in ZipLayouts, save_path \in BOOLEAN,
       labOrder \in Orders(LabelNames) :
        LET opened == unzip_file(layout, submission)
            volOrder == SortedVolumeNames
            pred_volumes == top_array_keys(opened)
            truth_volumes == top_array_keys(truth)
            volumes == pred_volumes \cap truth_volumes
            r == score_volumes(opened, truth, pred_volumes, volOrder, labOrder,
                               1, <<>>)
            ok == r.outcome = "ok"
        IN /\ truth' = r.truth
           /\ resultsFile' = IF ok /\ save_path
                             THEN [written |-> TRUE, scores |-> r.scores]
                             ELSE resultsFile
           /\ scoreCall' = [NoScoreCall EXCEPT
                               !.fn = "score_submission", !.layout = layout,
                               !.save_path = save_path,
                               !.outcome = r.outcome,
                               !.returned = IF ~ok THEN "raise"
                                            ELSE IF save_path THEN "None"
                                            ELSE "dict",
                               !.scores = r.scores,
                               !.wrote = ok /\ save_path]
           /\ UNCHANGED <<submission, packVars, lossVars>>

(***************************************************************************)
(* CellMapLossWrapper.  A float is finite (the rational n/d, in lowest     *)
(* terms), inf (n its sign) or nan.  Tensors are flattened to TensorLen    *)
(* elements, of dtype torch.float16: 11 significant bits, exponents -14 to *)
(* 15, largest finite value 65504.  Every tensor operation rounds its      *)
(* exact result to the nearest float16, ties to even, and a result beyond  *)
(* the largest finite value is inf.                                        *)
(***************************************************************************)
TensorLen == 2
FloatMax == 65504

Positions == 1..TensorLen
Keys == {"k1", "k2"}
LossFns == {"L1Loss", "MSELoss"}

RECURSIVE GCD(_, _)
GCD(a, b) == IF b = 0 THEN a ELSE GCD(b, a % b)

Abs(x) == IF x < 0 THEN -x ELSE x

RECURSIVE Pow2(_)
Pow2(k) == IF k = 0 THEN 1 ELSE 2 * Pow2(k - 1)

NaN == [k |-> "nan", n |-> 0, d |-> 1]
PosInf == [k |-> "inf", n |-> 1, d |-> 1]
NegInf == [k |-> "inf", n |-> -1, d |-> 1]
SignedInf(s) == IF s < 0 THEN NegInf ELSE PosInf
Ratio(n, d) ==
    LET g == GCD(Abs(n), d) IN [k |-> "fin", n |-> n \div g, d |-> d \div g]
Fin(n) == [k |-> "fin", n |-> n, d |-> 1]

isnan(x) == x.k = "nan"

\* the exponent of the float16 binade of the rational n/d > 0: the largest
\* e in -14..15 with 2^e <= n/d; -14 for the subnormal values below
Exponent(n, d) ==
    LET above == IF n >= d
                 THEN {e \in 0..15 : Pow2(e) * d <= n}
                 ELSE {e \in (-14)..(-1) : d <= n * Pow2(-e)}
    IN IF above = {} THEN -14
       ELSE CHOOSE e \in above : \A f \in above : f <= e

\* a/b (a >= 0, b > 0) rounded to the nearest integer, ties to even
RoundHalfEven(a, b) ==
    LET q == a \div b
        r == a % b
    IN IF 2 * r < b THEN q
       ELSE IF 2 * r > b THEN q + 1
       ELSE q + (q % 2)

\* the float16 nearest to the rational n/d: a multiple of 2^(e-10), e the
\* exponent of its binade; inf beyond the largest finite value
RoundFloat(n, d) ==
    IF n = 0 THEN Fin(0)
    ELSE LET a == Abs(n)
             e == Exponent(a, d)
             m == IF e >= 10
                  THEN Fin(RoundHalfEven(a, d * Pow2(e - 10)) * Pow2(e - 10))
                  ELSE Ratio(RoundHalfEven(a * Pow2(10 - e), d), Pow2(10 - e))
         IN IF m.d = 1 /\ m.n > FloatMax THEN SignedInf(n)
            ELSE IF n < 0 THEN [m EXCEPT !.n = -m.n]
            ELSE m

\* the exact sum of two finite values
radd(x, y) == Ratio(x.n * y.d + y.n * x.d, x.d * y.d)

\* Tensor.nan_to_num(0), elementwise: nan becomes 0, inf and -inf the
\* largest and the smallest finite value of the dtype
nan_to_num(x) ==
    IF isnan(x) THEN Fin(0)
    ELSE IF x.k = "inf" THEN Fin(x.n * FloatMax)
    ELSE x

\* x - y
fsub(x, y) ==
    IF isnan(x) \/ isnan(y) THEN NaN
    ELSE IF x.k = "inf" THEN (IF y.k = "inf" /\ y.n = x.n THEN NaN ELSE x)
    ELSE IF y.k = "inf" THEN SignedInf(-y.n)
    ELSE RoundFloat(x.n * y.d - y.n * x.d, x.d * y.d)

\* |x|
fabs(x) ==
    IF isnan(x) THEN NaN
    ELSE IF x.k = "inf" THEN PosInf
    ELSE [x EXCEPT !.n = Abs(x.n)]

\* x * x; from |x| = 256 on the square is beyond the largest finite value
fsquare(x) ==
    IF isnan(x) THEN NaN
    ELSE IF x.k = "inf" \/ Abs(x.n) >= 256 * x.d THEN PosInf
    ELSE RoundFloat(x.n * x.n, x.d * x.d)

\* loss_fn(outputs, target) with reduction="none", elementwise:
\* |o - t| for L1Loss and (o - t)^2 for MSELoss
elementwise_loss(fn, o, t) ==
    IF fn = "L1Loss" THEN fabs(fsub(o, t)) ELSE fsquare(fsub(o, t))

\* loss * mask, elementwise; the mask is 1.0 or 0.0, and inf * 0 = nan
mask_mul(x, valid) ==
    IF valid THEN x
    ELSE IF x.k = "fin" THEN Fin(0)
    ELSE NaN

\* the exact sum of the finite values f[i], i in S
RECURSIVE SumOver(_, _)
SumOver(f, S) ==
    IF S = {} THEN Fin(0)
    ELSE LET i == CHOOSE x \in S : TRUE IN radd(f[i], SumOver(f, S \ {i}))

\* x / len, for an integer len > 0
fdiv(x, len) == IF x.k = "fin" THEN RoundFloat(x.n, x.d * len) ELSE x

\* Tensor.nanmean(): the sum of the elements that are not nan (a float of
\* the dtype), divided by their number
nanmean(x) ==
    LET kept == {i \in DOMAIN x : ~isnan(x[i])}
        infs == {x[i] : i \in {j \in kept : x[j].k = "inf"}}
        fins == {i \in kept : x[i].k = "fin"}
        total == SumOver(x, fins)
    IN IF kept = {} \/ Cardinality(infs) > 1 THEN NaN
       ELSE IF infs /= {} THEN CHOOSE v \in infs : TRUE
       ELSE fdiv(RoundFloat(total.n, total.d), Cardinality(kept))

\* the tensor handed to nanmean
masked_loss(fn, outputs, target) ==
    [i \in DOMAIN target |->
        mask_mul(elementwise_loss(fn, outputs[i], nan_to_num(target[i])),
                 ~isnan(target[i]))]

calc_loss(fn, outputs, target) == nanmean(masked_loss(fn, outputs, target))

\* loss += x
fadd(x, y) ==
    IF isnan(x) \/ isnan(y) THEN NaN
    ELSE IF x.k = "inf" THEN (IF y.k = "inf" /\ y.n /= x.n THEN NaN ELSE x)
    ELSE IF y.k = "inf" THEN y
    ELSE LET total == radd(x, y) IN RoundFloat(total.n, total.d)

(***************************************************************************)
(* The arguments of forward: targets is a tensor or a dict (its items in   *)
(* iteration order, the keys distinct); outputs is a tensor, a dict or a   *)
(* list.                                                                   *)
(***************************************************************************)
TensorArg(t) == [type |-> "tensor", t |-> t, items |-> <<>>, d |-> <<>>]
DictTargets(items) == [type |-> "dict", t |-> <<>>, items |-> items, d |-> <<>>]
DictOutputs(d) == [type |-> "dict", t |-> <<>>, items |-> <<>>, d |-> d]
ListOutputs(l) == [type |-> "list", t |-> <<>>, items |-> l, d |-> <<>>]

\* outputs[key] for a dict, outputs[i] (0-based) for a list or tuple
output_for(outputs, key, i) ==
    IF outputs.type = "dict"
    THEN IF key \in DOMAIN outputs.d
         THEN [ok |-> TRUE, err |-> "", t |-> outputs.d[key]]
         ELSE [ok |-> FALSE, err |-> "KeyError", t |-> <<>>]
    ELSE IF i + 1 \in DOMAIN outputs.items
         THEN [ok |-> TRUE, err |-> "", t |-> outputs.items[i + 1]]
         ELSE [ok |-> FALSE, err |-> "IndexError", t |-> <<>>]

\* the two loops of forward over the items of targets, from item j on
RECURSIVE accumulate(_, _, _, _, _)
accumulate(fn, outputs, items, j, loss) ==
    IF j > Len(items) THEN [outcome |-> "ok", loss |-> loss]
    ELSE LET o == output_for(outputs, items[j].key, j - 1)
         IN IF ~o.ok THEN [outcome |-> o.err, loss |-> NaN]
            ELSE accumulate(fn, outputs, items, j + 1,
                            fadd(loss, calc_loss(fn, o.t, items[j].t)))

\* loss /= len(targets)
average_without_division(loss, len) == loss

average(loss, len) == fdiv(loss, len)

forward(fn, outputs, targets) ==
    IF targets.type = "dict"
    THEN LET r == accumulate(fn, outputs, targets.items, 1, Fin(0))
         IN IF r.outcome /= "ok" THEN r
            ELSE IF Len(targets.items) = 0
            THEN [outcome |-> "ZeroDivisionError", loss |-> NaN]
            ELSE [outcome |-> "ok",
                  loss |-> average(r.loss, Len(targets.items))]
    ELSE [outcome |-> "ok", loss |-> calc_loss(fn, outputs.t, targets.t)]

OutputValues == {Fin(0), Ratio(1, 2), Fin(300), PosInf, NaN}
TargetValues == {Fin(0), Fin(1), PosInf, NaN}
OutputTensors == [Positions -> OutputValues]
TargetTensors == [Positions -> TargetValues]

\* the tensors put into dicts and lists: outputs of one value throughout,
\* targets of one value at the first position and one at the others
ItemOutputs == {[i \in Positions |-> a] : a \in OutputValues \ {PosInf}}
ItemTargets ==
    {[i \in Positions |-> IF i = 1 THEN a ELSE b] :
        a, b \in TargetValues \ {Fin(0)}}

DistinctKeys(items) ==
    \A i, j \in DOMAIN items : items[i].key = items[j].key => i = j

TargetItemLists ==
    {<<>>}
    \cup {<<[key |-> k, t |-> t]>> : k \in Keys, t \in ItemTargets}
    \cup {<<[key |-> k1, t |-> t1], [key |-> k2, t |-> t2]>> :
            k1 \in Keys, k2 \in Keys, t1 \in ItemTargets, t2 \in ItemTargets}

OutputDicts == UNION {[K -> ItemOutputs] : K \in SUBSET Keys}
OutputLists == UNION {[1..n -> ItemOutputs] : n \in 0..Cardinality(Keys)}

TargetDicts == {items \in TargetItemLists : DistinctKeys(items)}

LossInputs ==
    {[outputs |-> TensorArg(o), targets |-> TensorArg(t)] :
        o \in OutputTensors, t \in TargetTensors}
    \cup {[outputs |-> DictOutputs(d), targets |-> DictTargets(items)] :
            d \in OutputDicts, items \in TargetDicts}
    \cup {[outputs |-> ListOutputs(l), targets |-> DictTargets(items)] :
            l \in OutputLists, items \in TargetDicts}

NoLossCall == [fn |-> "none", outcome |-> "none", loss |-> NaN]

\* wrapper.calc_loss(outputs, target) on two tensors
CalcLoss ==
    /\ lossIn.outputs.type = "tensor"
    /\ lossIn.targets.type = "tensor"
    /\ lossCall' = [fn |-> "calc_loss", outcome |-> "ok",
                    loss |-> calc_loss(loss_fn, lossIn.outputs.t, lossIn.targets.t)]
    /\ UNCHANGED <<loss_fn, lossIn, packVars, scoreVars>>

\* wrapper(outputs, targets)
Forward ==
    /\ LET r == forward(loss_fn, lossIn.outputs, lossIn.targets)
       IN lossCall' = [fn |-> "forward", outcome |-> r.outcome, loss |-> r.loss]
    /\ UNCHANGED <<loss_fn, lossIn, packVars, scoreVars>>

(***************************************************************************)
(* Properties of the packaging helpers (SpecPack).                         *)
(***************************************************************************)
StoredGroup == store.groups[packCall.vol]

\* C1: a save_numpy_binary_to_zarr call on a submission_path that does not
\* exist yet, whether or not its parent directory exists, completes, and the
\* store then holds under test_volume_name exactly one array per label name,
\* the array of label_names[i] holding the values of labels[i].
C1_BinaryRoundTrip ==
    (/\ packCall.fn = "save_numpy_binary_to_zarr"
     /\ ~packCall.path_existed
     /\ packCall.well_formed)
    => /\ packCall.outcome = "ok"
       /\ StoredGroup.present
       /\ array_keys(StoredGroup)
            = {packCall.names[i] : i \in 1..Len(packCall.names)}
       /\ \A i \in 1..Len(packCall.names) :
            StoredGroup.arrays[packCall.names[i]].data = packCall.labels[i]

\* C2: a call of either helper on a submission_path that an earlier call
\* created, with a test_volume_name not passed before, completes, and the
\* store then holds one group per test volume name passed so far.
C2_LaterCallsComplete ==
    (/\ packCall.fn /= "none"
     /\ packCall.path_existed
     /\ packCall.fresh
     /\ packCall.well_formed)
    => /\ packCall.outcome = "ok"
       /\ {v \in VolumeNames : store.groups[v].present} = called

\* C3: after a completed save_numpy_labels_to_zarr call, for every index i
\* of the label-name list the stored array named by the i-th name is true
\* exactly at the voxels where labels equals i+1 (i counted from 0); a voxel
\* of class 0 is true in no stored array, and every voxel is true in at most
\* one stored array.
C3_ClassMasks ==
    (/\ packCall.fn = "save_numpy_labels_to_zarr"
     /\ packCall.outcome = "ok")
    => /\ \A j \in 1..Len(packCall.names) :
            /\ StoredGroup.arrays[packCall.names[j]].present
            /\ \A v \in Voxels :
                 StoredGroup.arrays[packCall.names[j]].data[v]
                    = (packCall.labels[v] = j)
       /\ \A v \in Voxels :
            LET on == {l \in array_keys(StoredGroup) : StoredGroup.arrays[l].data[v]}
            IN /\ Cardinality(on) <= 1
               /\ packCall.labels[v] = 0 => on = {}

\* a completed call with two label names on a volume that has a background
\* voxel and a voxel of class 2
C3_Witness ==
    /\ packCall.fn = "save_numpy_labels_to_zarr"
    /\ packCall.outcome = "ok"
    /\ Len(packCall.names) = 2
    /\ \E v \in Voxels : packCall.labels[v] = 0
    /\ \E v \in Voxels :
         /\ packCall.labels[v] = 2
         /\ StoredGroup.arrays[packCall.names[2]].data[v]

(***************************************************************************)
(* Properties of the scoring pipeline (SpecScore).                         *)
(***************************************************************************)
\* the array names present under volume v in both stores
CommonArrays(v) ==
    {l \in LabelNames : /\ submission[v].children[l].kind = "array"
                        /\ truth[v].children[l].kind = "array"}

\* the volumes that are top-level groups of both stores
CommonVolumes == top_group_keys(submission) \cap top_group_keys(truth)

\* some label to be scored has a predicted shape that is not the ground
\* truth's
ShapeMismatch ==
    \E v \in CommonVolumes : \E l \in CommonArrays(v) :
        submission[v].children[l].shape /= truth[v].children[l].shape

\* C4: the key set of the result of score_submission is the set of volume
\* names that are top-level groups of both the submission store and the
\* ground-truth store (here for an archive that opens as the store itself).
C4_VolumeIntersection ==
    (/\ scoreCall.fn = "score_submission"
     /\ scoreCall.layout = "flat"
     /\ scoreCall.outcome = "ok")
    => DOMAIN scoreCall.scores = CommonVolumes

\* C5: for a volume that is a group in both stores, score_volume completes
\* when the shapes of the common arrays agree, the key set of its result is
\* the set of array names present under the volume in both stores, and
\* score_label is invoked once for each such name and for no other name.
C5_LabelIntersection ==
    (/\ scoreCall.fn = "score_volume"
     /\ submission[scoreCall.vol].kind = "group"
     /\ truth[scoreCall.vol].kind = "group")
    => LET both == CommonArrays(scoreCall.vol)
           agree == \A l \in both :
                       submission[scoreCall.vol].children[l].shape
                          = truth[scoreCall.vol].children[l].shape
       IN /\ agree => scoreCall.outcome = "ok"
          /\ scoreCall.outcome = "ok" =>
                /\ DOMAIN scoreCall.scores = both
                /\ Len(scoreCall.calls) = Cardinality(both)
                /\ {scoreCall.calls[i] : i \in DOMAIN scoreCall.calls} = both

\* C8: every successful score_submission call returns the dictionary of
\* scores, with and without save_path; with save_path the same dictionary
\* is also written to that path.
C8_ReturnsScores ==
    (/\ scoreCall.fn = "score_submission"
     /\ scoreCall.outcome = "ok")
    => /\ scoreCall.returned = "dict"
       /\ scoreCall.save_path =>
            resultsFile = [written |-> TRUE, scores |-> scoreCall.scores]

\* C9: when a label to be scored has a predicted shape that differs from
\* the ground truth's, score_submission fails with the assertion error and
\* writes no results file; when all shapes agree no assertion failure occurs.
C9_ShapeCheckPropagates ==
    (/\ scoreCall.fn = "score_submission"
     /\ scoreCall.layout = "flat")
    => IF ShapeMismatch
       THEN scoreCall.outcome = "AssertionError" /\ ~scoreCall.wrote
       ELSE scoreCall.outcome /= "AssertionError"

(***************************************************************************)
(* Properties of the loss wrapper (SpecLoss).                              *)
(***************************************************************************)
ValidPositions(target) == {i \in DOMAIN target : ~isnan(target[i])}

\* C6: for an output/target pair with at least one non-NaN target (and a
\* finite elementwise loss at those positions), calc_loss is the sum of the
\* elementwise loss over the positions where the target is not NaN divided
\* by the number of those positions.
C6_MeanOverValid ==
    LET o == lossIn.outputs.t
        t == lossIn.targets.t
        valid == ValidPositions(t)
        per == [i \in valid |-> elementwise_loss(loss_fn, o[i], t[i])]
    IN (/\ lossCall.fn = "calc_loss"
        /\ valid /= {}
        /\ \A i \in valid : per[i].k = "fin")
       => LET total == SumOver(per, valid)
          IN lossCall.loss
               = fdiv(RoundFloat(total.n, total.d), Cardinality(valid))

\* C7: for finite outputs, calc_loss returns the same loss for every other
\* output tensor that agrees with the one given where the target is not NaN
\* and holds any finite values where the target is NaN.
C7_MaskedIgnored ==
    LET o == lossIn.outputs.t
        t == lossIn.targets.t
    IN (/\ lossCall.fn = "calc_loss"
        /\ \A i \in Positions : o[i].k = "fin")
       => \A o2 \in OutputTensors :
            (\A i \in Positions :
                IF isnan(t[i]) THEN o2[i].k = "fin" ELSE o2[i] = o[i])
            => calc_loss(loss_fn, o2, t) = lossCall.loss

\* the output tensor forward pairs with the j-th item of a dict of targets
OutputOfItem(j) ==
    IF lossIn.outputs.type = "dict"
    THEN lossIn.outputs.d[lossIn.targets.items[j].key]
    ELSE lossIn.outputs.items[j]

\* calc_loss of each item of a dict of targets
PerItemLoss ==
    [j \in 1..Len(lossIn.targets.items) |->
        calc_loss(loss_fn, OutputOfItem(j), lossIn.targets.items[j].t)]

\* r is the arithmetic mean of the floats per[1], ..., per[K], K > 0, none
\* of them -inf: the float nearest to their exact mean, and inf where
\* their sum is beyond the largest finite value
IsMean(r, per) ==
    LET all == DOMAIN per
        total == SumOver(per, all)
    IN IF \E j \in all : isnan(per[j]) THEN isnan(r)
       ELSE IF \E j \in all : per[j].k = "inf" THEN r = PosInf
       ELSE IF RoundFloat(total.n, total.d).k = "inf" THEN r = PosInf
       ELSE r = RoundFloat(total.n, total.d * Len(per))

\* C10: forward with a non-empty dict of targets returns the arithmetic
\* mean over the target keys of calc_loss(output_k, target_k), output_k
\* being outputs[key] for a dict of outputs and outputs[i] for a list; with
\* a tensor target it returns calc_loss(outputs, targets); a single-entry
\* dict gives the loss of its one tensor pair.
C10_ForwardIsMean ==
    (/\ lossCall.fn = "forward"
     /\ lossCall.outcome = "ok")
    => IF lossIn.targets.type = "dict"
       THEN /\ Len(lossIn.targets.items) > 0
            /\ IsMean(lossCall.loss, PerItemLoss)
            /\ Len(lossIn.targets.items) = 1 => lossCall.loss = PerItemLoss[1]
       ELSE lossCall.loss
               = calc_loss(loss_fn, lossIn.outputs.t, lossIn.targets.t)

\* a completed forward call on a list of outputs and a dict of two targets
\* whose two losses differ
C10_Witness ==
    /\ lossCall.fn = "forward"
    /\ lossCall.outcome = "ok"
    /\ lossIn.outputs.type = "list"
    /\ lossIn.targets.type = "dict"
    /\ Len(lossIn.targets.items) = 2
    /\ lossCall.loss.k = "fin"
    /\ lossCall.loss.n > 0
    /\ PerItemLoss[1] /= PerItemLoss[2]

(***************************************************************************)
(* The specifications.  Each starts the part of the program it is about    *)
(* from the states that part can be in and leaves the rest idle.           *)
(***************************************************************************)
PackIdle ==
    /\ parentExists = FALSE
    /\ store = NoStore
    /\ called = {}
    /\ packCall = NoCall

ScoreIdle ==
    /\ submission = [v \in VolumeNames |-> AbsentNode]
    /\ truth = [v \in VolumeNames |-> AbsentNode]
    /\ resultsFile = NoFile
    /\ scoreCall = NoScoreCall

LossIdle ==
    /\ loss_fn = "L1Loss"
    /\ lossIn = [outputs |-> TensorArg(<<>>), targets |-> TensorArg(<<>>)]
    /\ lossCall = NoLossCall

InitPack ==
    /\ parentExists \in BOOLEAN
    /\ store = NoStore
    /\ called = {}
    /\ packCall = NoCall
    /\ ScoreIdle
    /\ LossIdle

NextPack ==
    \/ save_numpy_labels_to_zarr
    \/ save_numpy_binary_to_zarr

SpecPack == InitPack /\ [][NextPack]_vars

InitScore ==
    /\ submission \in [VolumeNames -> SubmissionNodes]
    /\ truth \in [VolumeNames -> TruthNodes]
    /\ resultsFile = NoFile
    /\ scoreCall = NoScoreCall
    /\ PackIdle
    /\ LossIdle

NextScore ==
    \/ ScoreLabel
    \/ ScoreVolume
    \/ ScoreSubmission

SpecScore == InitScore /\ [][NextScore]_vars

InitLoss ==
    /\ loss_fn \in LossFns
    /\ lossIn \in LossInputs
    /\ lossCall = NoLossCall
    /\ PackIdle
    /\ ScoreIdle

NextLoss ==
    \/ CalcLoss
    \/ Forward

SpecLoss == InitLoss /\ [][NextLoss]_vars

====
